---- MODULE Spec2Model ----
(***************************************************************************)
(* Model of odbc::ConnectionPool and PoolConnectionHandle                  *)
(* (src/odbc_connection_pool.h, src/odbc_connection_pool.cpp).             *)
(*                                                                         *)
(* A Connection object is identified by a positive integer (the identity   *)
(* of the heap object a unique_ptr<Connection> points to); Null is the     *)
(* empty unique_ptr.  Every section of code that runs under mutex_ is one  *)
(* atomic action; every read or write of an atomic made outside the mutex  *)
(* is a step of its own.                                                   *)
(***************************************************************************)
EXTENDS Integers, Sequences, FiniteSets, TLC

\* ---------------------------------------------------------------- bounds
NumThreads == 2
MaxPool == 2
MaxConn == 2

Threads == 1..NumThreads
Null == 0

\* The longest timeout a caller passes to get_connection, in units of the
\* 100 ms the loop sleeps between two attempts.
MaxTimeout == 1

\* ----------------------------------------------------------------- state
VARIABLES
    config,               \* ConnectionPoolConfig of this pool
    idle_connections_,    \* std::queue<Connection::Ptr>, front first
    active_connections_,  \* std::unordered_set<Connection::Ptr>
    total_connections_,   \* std::atomic<size_t>
    waiting_requests_,    \* std::atomic<size_t>
    shutdown_,            \* std::atomic<bool>
    connected_,           \* Connection objects whose connected_ is true
    closed,               \* how often each destroyed Connection object was
                          \* destroyed (~Connection disconnects it)
    nextId,               \* identity of the next Connection to be created
    pc,                   \* position of every caller thread
    handle,               \* conn_ of the PoolConnectionHandle a caller has
    replacement,          \* conn_ of the handle get_connection built anew
    lease,                \* the Connection borrow_from_pool activated for it
    outcome,              \* how the caller's last get_connection or query
                          \* ended ("none" once it has let go of the handle)
    hcpc,                 \* position of health_check_thread_
    sdpc,                 \* position of the first shutdown() call, then
                          \* "destroyed" once ~ConnectionPool has run
    timeout,              \* the timeout argument each caller passes
    elapsed               \* now() - start_time of the caller's call; both
                          \* in units of 100 ms

vars == <<config, idle_connections_, active_connections_, total_connections_,
          waiting_requests_, shutdown_, connected_, closed, nextId, pc,
          handle, replacement, lease, outcome, hcpc, sdpc, timeout, elapsed>>

poolVars == <<idle_connections_, active_connections_, total_connections_,
              waiting_requests_, shutdown_>>

Range(s) == {s[i] : i \in 1..Len(s)}

\* ConnectionPoolConfig: the fields the pool reads.  Of connection_config,
\* the data source every Connection is created on, the model keeps the
\* number of connections the source accepts before it refuses all others.
ConnectionPoolConfig ==
    [min_connections : 0..MaxPool, max_connections : 1..MaxPool,
     test_on_borrow : BOOLEAN, test_on_return : BOOLEAN,
     connection_config : MaxConn..(MaxConn + 1)]

\* Connection::is_connected
is_connected(c) == c \in connected_

\* weak_pool.lock() succeeds, and a caller can still reach the pool: the
\* ConnectionPool object has not been destroyed.
PoolAlive == sdpc # "destroyed"

\* Connection::~Connection has run on c at least once.
IsClosed(c) == c \in DOMAIN closed

\* The destruction record cl after the Connection objects of S have been
\* destroyed once more.
Destroy(cl, S) ==
    [c \in DOMAIN cl \cup S |->
        (IF c \in DOMAIN cl THEN cl[c] ELSE 0) + (IF c \in S THEN 1 ELSE 0)]

\* Mutant of WarmUpTotal: the counter is set to min_connections whatever
\* number of creations succeeded.
WarmUpTotalConfigured(k) == config.min_connections

\* total_connections_ after k turns of the warm-up loop, which increments
\* it once per connection pushed to the idle queue.
WarmUpTotal(k) == k

\* ------------------------------------------------------------ constructor
\* ConnectionPool::ConnectionPool: the warm-up loop runs inside one try, so
\* the first failing creation ends it; k connections were created.
InitPool ==
    /\ config \in {cfg \in ConnectionPoolConfig :
                      cfg.min_connections <= cfg.max_connections}
    /\ \E k \in 0..config.min_connections :
          /\ idle_connections_ = [i \in 1..k |-> i]
          /\ total_connections_ = WarmUpTotal(k)
          /\ connected_ = 1..k
          /\ nextId = k + 1
    /\ active_connections_ = {}
    /\ waiting_requests_ = 0
    /\ shutdown_ = FALSE
    /\ closed = [c \in {} |-> 0]
    /\ pc = [t \in Threads |-> "idle"]
    /\ handle = [t \in Threads |-> Null]
    /\ replacement = [t \in Threads |-> Null]
    /\ lease = [t \in Threads |-> Null]
    /\ outcome = [t \in Threads |-> "none"]
    /\ hcpc = "loop"
    /\ sdpc = "not_called"
    /\ elapsed = [t \in Threads |-> 0]

\* The pool after construction, the callers' clocks left out of account:
\* what the test elapsed >= timeout yields is then left open (see
\* GetConnectionElapsed).
Init ==
    /\ InitPool
    /\ config.connection_config = MaxConn
    /\ timeout = [t \in Threads |-> 0]

\* A pool as the tests build it, min_connections = max_connections and
\* test_on_return at its default, on a data source that accepts the
\* warm-up connections.
ShutdownInit ==
    /\ Init
    /\ config.min_connections = config.max_connections
    /\ ~config.test_on_return

\* The same pool on a data source that accepts one connection more, so
\* that a creation can succeed after a full warm-up.
EvictInit ==
    /\ InitPool
    /\ config.connection_config = MaxConn + 1
    /\ timeout = [t \in Threads |-> 0]

\* A pool whose warm-up created no connection (min_connections = 0 stands
\* for all of them: the field is not read after construction), with
\* test_on_return at its default, and whose callers all pass the same
\* timeout to get_connection.
TimedInit ==
    /\ InitPool
    /\ config.connection_config = MaxConn
    /\ config.min_connections = 0
    /\ ~config.test_on_return
    /\ timeout \in {[t \in Threads |-> ms] : ms \in 0..MaxTimeout}

\* --------------------------------------------------------- get_connection
\* Mutant of EntryShutdownCheck: the entry test of the flag is left out.
EntryShutdownCheckMissing == FALSE

\* get_connection, first statement: if (shutdown_) throw.
EntryShutdownCheck == shutdown_

\* get_connection is called; the call ends at once with "Connection pool is
\* shutdown" when the flag is set.
GetConnectionCheck(t) ==
    /\ pc[t] = "idle"
    /\ PoolAlive
    /\ IF EntryShutdownCheck
       THEN /\ outcome' = [outcome EXCEPT ![t] = "PoolShutdown"]
            /\ pc' = pc
       ELSE /\ outcome' = [outcome EXCEPT ![t] = "none"]
            /\ pc' = [pc EXCEPT ![t] = "inc"]
    /\ UNCHANGED <<config, timeout, elapsed, poolVars, connected_, closed, nextId, handle,
                   replacement, lease, hcpc, sdpc>>

\* waiting_requests_++; start_time = now()
GetConnectionInc(t) ==
    /\ pc[t] = "inc"
    /\ waiting_requests_' = waiting_requests_ + 1
    /\ pc' = [pc EXCEPT ![t] = "loop"]
    /\ elapsed' = [elapsed EXCEPT ![t] = 0]
    /\ UNCHANGED <<config, timeout, idle_connections_, active_connections_,
                   total_connections_, shutdown_, connected_, closed, nextId,
                   handle, replacement, lease, outcome, hcpc, sdpc>>

\* Mutant of LoopSeesShutdown: the loop never tests the flag.
LoopNeverSeesShutdown == FALSE

\* while (!shutdown_): the value the loop test reads.
LoopSeesShutdown == shutdown_

\* while (!shutdown_): the loop test; when it fails the call decrements
\* waiting_requests_ and throws "Connection pool is shutdown".
GetConnectionLoop(t) ==
    /\ pc[t] = "loop"
    /\ IF LoopSeesShutdown
       THEN /\ waiting_requests_' = waiting_requests_ - 1
            /\ outcome' = [outcome EXCEPT ![t] = "PoolShutdown"]
            /\ pc' = [pc EXCEPT ![t] = "idle"]
            /\ elapsed' = [elapsed EXCEPT ![t] = 0]
       ELSE /\ pc' = [pc EXCEPT ![t] = "borrow"]
            /\ UNCHANGED <<waiting_requests_, outcome, elapsed>>
    /\ UNCHANGED <<config, timeout, idle_connections_, active_connections_,
                   total_connections_, shutdown_, connected_, closed, nextId,
                   handle, replacement, lease, hcpc, sdpc>>

\* -------------------------------------------------------- borrow_from_pool
\* Mutant of moved_from: the pointer still refers to the connection after
\* the insert, as if the set had been given a copy.
moved_from_kept(c) == c

\* The unique_ptr left behind by active_connections_.insert(std::move(conn)):
\* the set took the Connection, so the pointer that the handle is then built
\* from is empty.
moved_from(c) == Null

\* Mutant of PopIdle: the front connection is read but never popped.
PopIdleKept == idle_connections_

\* idle_connections_.pop()
PopIdle == Tail(idle_connections_)

\* Mutant of BelowMax: the limit is tested with <= instead of <.
BelowMaxOffByOne(total) == total <= config.max_connections

\* total_connections_ < config_.max_connections, read after a dead idle
\* connection (if any) was discounted.
BelowMax(total) == total < config.max_connections

\* The outcomes of std::make_unique<Connection>(config): the constructor
\* connects and may throw.  Once the data source has accepted as many
\* connections as it takes, every further creation fails, which keeps the
\* identities bounded.
CreateOutcomes ==
    IF nextId <= config.connection_config THEN BOOLEAN ELSE {FALSE}

\* Mutant of CountCreated: the counter is incremented before the creation
\* is attempted.
CountAttempted(total, created) == total + 1

\* total_connections_++ stands after make_unique inside the try block: it
\* is skipped when the constructor throws.
CountCreated(total, created) == IF created THEN total + 1 ELSE total

\* Mutant of Evicted: a popped connection is never taken for dead.
EvictedNever(front) == FALSE

\* The else branch of if (conn->is_connected()) for the popped connection.
Evicted(front) == front # Null /\ ~is_connected(front)

\* borrow_from_pool, all of it under mutex_.  front is the connection popped
\* from the idle queue (Null when the queue is empty), evicted tells whether
\* it failed is_connected().
borrow_from_pool(t) ==
    /\ pc[t] = "borrow"
    /\ LET front == IF idle_connections_ = <<>> THEN Null
                    ELSE Head(idle_connections_)
           idleAfter == IF front = Null THEN idle_connections_ ELSE PopIdle
           reuse == front # Null /\ is_connected(front)
           evicted == Evicted(front)
           total1 == IF evicted THEN total_connections_ - 1
                     ELSE total_connections_
           closed1 == IF evicted THEN Destroy(closed, {front}) ELSE closed
           conn1 == IF evicted THEN connected_ \ {front} ELSE connected_
       IN
       IF reuse
       THEN /\ idle_connections_' = idleAfter
            /\ active_connections_' = active_connections_ \cup {front}
            /\ handle' = [handle EXCEPT ![t] = moved_from(front)]
            /\ lease' = [lease EXCEPT ![t] = front]
            /\ pc' = [pc EXCEPT ![t] = "got"]
            /\ UNCHANGED <<total_connections_, connected_, closed, nextId>>
       ELSE \E created \in CreateOutcomes :
            /\ idle_connections_' = idleAfter
            /\ closed' = closed1
            /\ IF BelowMax(total1) /\ created
               THEN /\ active_connections_' = active_connections_ \cup {nextId}
                    /\ total_connections_' = CountCreated(total1, TRUE)
                    /\ connected_' = conn1 \cup {nextId}
                    /\ nextId' = nextId + 1
                    /\ handle' = [handle EXCEPT ![t] = moved_from(nextId)]
                    /\ lease' = [lease EXCEPT ![t] = nextId]
                    /\ pc' = [pc EXCEPT ![t] = "got"]
               ELSE /\ total_connections_' =
                          IF BelowMax(total1) THEN CountCreated(total1, FALSE)
                          ELSE total1
                    /\ connected_' = conn1
                    /\ pc' = [pc EXCEPT ![t] = "elapsed"]
                    /\ UNCHANGED <<active_connections_, nextId, handle, lease>>
    /\ UNCHANGED <<config, timeout, elapsed, waiting_requests_, shutdown_, replacement,
                   outcome, hcpc, sdpc>>

\* ------------------------------------------- get_connection, after a borrow
\* Mutant of HandleInvalid: the test of conn_ is left out.
HandleInvalidNever(c) == FALSE

\* PoolConnectionHandle::is_connected / execute / query: the handle throws
\* "Connection handle is invalid" when conn_ is empty, else it delegates.
HandleInvalid(c) == c = Null

\* borrow_from_pool returned a handle: waiting_requests_--, then the
\* test_on_borrow validation of the handle and the return.  A handle whose
\* connection is not connected is replaced by a handle around a freshly
\* created Connection (neither inserted into active_connections_ nor counted)
\* and the borrowed handle is destroyed when the call leaves its scope.
GetConnectionGot(t) ==
    /\ pc[t] = "got"
    /\ waiting_requests_' = waiting_requests_ - 1
    /\ IF ~config.test_on_borrow
       THEN /\ outcome' = [outcome EXCEPT ![t] = "handle"]
            /\ pc' = [pc EXCEPT ![t] = "holding"]
            /\ UNCHANGED <<connected_, nextId, handle, replacement, lease>>
       ELSE IF HandleInvalid(handle[t])
       THEN /\ outcome' = [outcome EXCEPT ![t] = "InvalidHandle"]
            /\ pc' = [pc EXCEPT ![t] = "idle"]
            /\ lease' = [lease EXCEPT ![t] = Null]
            /\ UNCHANGED <<connected_, nextId, handle, replacement>>
       ELSE IF is_connected(handle[t])
       THEN /\ outcome' = [outcome EXCEPT ![t] = "handle"]
            /\ pc' = [pc EXCEPT ![t] = "holding"]
            /\ UNCHANGED <<connected_, nextId, handle, replacement, lease>>
       ELSE \E created \in CreateOutcomes :
            /\ pc' = [pc EXCEPT ![t] = "destroy"]
            /\ IF created
               THEN /\ replacement' = [replacement EXCEPT ![t] = nextId]
                    /\ connected_' = connected_ \cup {nextId}
                    /\ nextId' = nextId + 1
                    /\ outcome' = [outcome EXCEPT ![t] = "handle"]
               ELSE /\ outcome' = [outcome EXCEPT ![t] = "CreateFailed"]
                    /\ UNCHANGED <<replacement, connected_, nextId>>
            /\ UNCHANGED <<handle, lease>>
    /\ elapsed' = [elapsed EXCEPT ![t] = 0]
    /\ UNCHANGED <<config, timeout, idle_connections_, active_connections_,
                   total_connections_, shutdown_, closed, hcpc, sdpc>>

\* Mutant of AfterTimeout: the timeout path leaves the counter as it is.
AfterTimeoutKept(waiting) == waiting

\* waiting_requests_-- before the timeout error is thrown.
AfterTimeout(waiting) == waiting - 1

\* borrow_from_pool returned nullptr: either the timeout has elapsed
\* (waiting_requests_--, throw "Timeout waiting for database connection") or
\* the caller sleeps 100 ms and tests the loop condition again.
\* The clock of the call is not followed here: either outcome of the test
\* elapsed >= timeout is possible.
GetConnectionElapsed(t) ==
    /\ pc[t] = "elapsed"
    /\ \E timedOut \in BOOLEAN :
          IF timedOut
          THEN /\ waiting_requests_' = AfterTimeout(waiting_requests_)
               /\ outcome' = [outcome EXCEPT ![t] = "PoolTimeout"]
               /\ pc' = [pc EXCEPT ![t] = "idle"]
          ELSE /\ pc' = [pc EXCEPT ![t] = "loop"]
               /\ UNCHANGED <<waiting_requests_, outcome>>
    /\ UNCHANGED <<config, timeout, elapsed, idle_connections_, active_connections_,
                   total_connections_, shutdown_, connected_, closed, nextId,
                   handle, replacement, lease, hcpc, sdpc>>

\* Mutant of TimedOut: the call gives up whatever time has elapsed.
TimedOutAtOnce(t) == TRUE

\* if (elapsed >= timeout)
TimedOut(t) == elapsed[t] >= timeout[t]

\* The same step with the clock of the call taken into account: the test
\* elapsed >= timeout decides, and sleep_for(100 ms) adds one unit.
GetConnectionElapsedTimed(t) ==
    /\ pc[t] = "elapsed"
    /\ IF TimedOut(t)
       THEN /\ waiting_requests_' = AfterTimeout(waiting_requests_)
            /\ outcome' = [outcome EXCEPT ![t] = "PoolTimeout"]
            /\ pc' = [pc EXCEPT ![t] = "idle"]
            /\ elapsed' = [elapsed EXCEPT ![t] = 0]
       ELSE /\ pc' = [pc EXCEPT ![t] = "loop"]
            /\ elapsed' = [elapsed EXCEPT ![t] = elapsed[t] + 1]
            /\ UNCHANGED <<waiting_requests_, outcome>>
    /\ UNCHANGED <<config, timeout, idle_connections_, active_connections_,
                   total_connections_, shutdown_, connected_, closed, nextId,
                   handle, replacement, lease, hcpc, sdpc>>

\* --------------------------------------------------- PoolConnectionHandle
\* The caller runs query (execute, is_connected) on the handle it holds.
HandleQuery(t) ==
    /\ pc[t] = "holding"
    /\ outcome' = [outcome EXCEPT ![t] =
                      IF HandleInvalid(handle[t]) THEN "InvalidHandle"
                      ELSE "ok"]
    /\ UNCHANGED <<config, timeout, elapsed, poolVars, connected_, closed, nextId, pc, handle,
                   replacement, lease, hcpc, sdpc>>

\* PoolConnectionHandle(PoolConnectionHandle&& other): the handle of caller
\* t is moved into a new handle, which caller u then has; conn_ of the
\* source is left empty by the move of the unique_ptr.  lease follows the
\* handle, so that it tells which connection the new handle was meant for.
MoveConstruct(t, u) ==
    /\ t # u
    /\ pc[t] = "holding" /\ pc[u] = "idle"
    /\ handle' = [handle EXCEPT ![u] = handle[t], ![t] = Null]
    /\ lease' = [lease EXCEPT ![u] = lease[t], ![t] = Null]
    /\ pc' = [pc EXCEPT ![u] = "holding"]
    /\ UNCHANGED <<config, timeout, elapsed, poolVars, connected_, closed,
                   nextId, replacement, outcome, hcpc, sdpc>>

\* operator=(PoolConnectionHandle&& other): the handle of caller t is moved
\* onto the handle caller u holds; the connection that one owned, if any,
\* is destroyed by the assignment to conn_ without being returned.
MoveAssign(t, u) ==
    /\ t # u
    /\ pc[t] = "holding" /\ pc[u] = "holding"
    /\ LET old == IF handle[u] = Null THEN {} ELSE {handle[u]}
       IN /\ closed' = Destroy(closed, old)
          /\ connected_' = connected_ \ old
    /\ handle' = [handle EXCEPT ![u] = handle[t], ![t] = Null]
    /\ lease' = [lease EXCEPT ![u] = lease[t], ![t] = Null]
    /\ UNCHANGED <<config, timeout, elapsed, poolVars, nextId, pc,
                   replacement, outcome, hcpc, sdpc>>

\* return_connection, first statement, read outside mutex_:
\* if (!conn || shutdown_) return;
ReturnIsNoop(c) == c = Null \/ shutdown_

\* ~PoolConnectionHandle followed by release_func_ and return_connection.
\* With an empty conn_ the destructor does nothing.  Otherwise release_func_
\* lets the connection go when the pool is gone, and calls return_connection
\* when it is not: return_connection tests shutdown_ and then, under mutex_ (position
\* "return_locked"), erases the connection from the active set and either
\* destroys it (test_on_return and not connected: total_connections_--) or
\* pushes it to the back of the idle queue.
ReleaseHandle(t) ==
    /\ pc[t] \in {"holding", "destroy", "return_locked"}
    /\ LET c == handle[t]
           after == IF replacement[t] # Null THEN "holding" ELSE "idle"
           done == /\ pc' = [pc EXCEPT ![t] = after]
                   /\ handle' = [handle EXCEPT ![t] = replacement[t]]
                   /\ replacement' = [replacement EXCEPT ![t] = Null]
                   /\ lease' = [lease EXCEPT ![t] = Null]
                   /\ outcome' = [outcome EXCEPT ![t] =
                                     IF after = "holding" THEN @ ELSE "none"]
       IN
       IF pc[t] # "return_locked"
       THEN IF c = Null
            THEN /\ done
                 /\ UNCHANGED <<idle_connections_, active_connections_,
                                total_connections_, connected_, closed>>
            ELSE IF ~PoolAlive \/ ReturnIsNoop(c)
            THEN /\ done
                 /\ closed' = Destroy(closed, {c})
                 /\ connected_' = connected_ \ {c}
                 /\ UNCHANGED <<idle_connections_, active_connections_,
                                total_connections_>>
            ELSE /\ pc' = [pc EXCEPT ![t] = "return_locked"]
                 /\ UNCHANGED <<idle_connections_, active_connections_,
                                total_connections_, connected_, closed,
                                handle, replacement, lease, outcome>>
       ELSE /\ done
            /\ active_connections_' = active_connections_ \ {c}
            /\ IF config.test_on_return /\ ~is_connected(c)
               THEN /\ total_connections_' = total_connections_ - 1
                    /\ closed' = Destroy(closed, {c})
                    /\ UNCHANGED <<idle_connections_, connected_>>
               ELSE /\ idle_connections_' = Append(idle_connections_, c)
                    /\ UNCHANGED <<total_connections_, connected_, closed>>
    /\ UNCHANGED <<config, timeout, elapsed, waiting_requests_, shutdown_, nextId, hcpc, sdpc>>

\* ------------------------------------------------------- health_check_task
\* Mutant of healthy_connections: the sweep keeps every connection.
healthy_connections_unchecked == idle_connections_

\* SelectSeq keeps the connected connections in queue order: the sweep pops
\* every idle connection and pushes the connected ones to a fresh queue.
healthy_connections == SelectSeq(idle_connections_, is_connected)

\* while (!shutdown_) at the top of the loop, then the sleep.
HealthCheckLoop ==
    /\ hcpc = "loop"
    /\ hcpc' = IF shutdown_ THEN "ended" ELSE "sleeping"
    /\ UNCHANGED <<config, timeout, elapsed, poolVars, connected_, closed, nextId, pc, handle,
                   replacement, lease, outcome, sdpc>>

\* Mutant of WakeSeesShutdown: the test after the sleep is left out.
WakeIgnoresShutdown == FALSE

\* The test of if (shutdown_) break; after the sleep.
WakeSeesShutdown == shutdown_

\* The sleep is over: if (shutdown_) break;
HealthCheckWake ==
    /\ hcpc = "sleeping"
    /\ hcpc' = IF WakeSeesShutdown THEN "ended" ELSE "sweep"
    /\ UNCHANGED <<config, timeout, elapsed, poolVars, connected_, closed, nextId, pc, handle,
                   replacement, lease, outcome, sdpc>>

\* Mutant of SweptConnections: the sweep also visits the active set.
SweptEverywhere == Range(idle_connections_) \cup active_connections_

\* The connections the sweep pops and tests: those of the idle queue.
SweptConnections == Range(idle_connections_)

\* Mutant of invalid_count: total_connections_-- is made for every
\* connection the sweep pops, dead or not.
invalid_count_popped(dead) == Len(idle_connections_)

\* invalid_count of the sweep: total_connections_-- is made once for each
\* popped connection that fails is_connected().
invalid_count(dead) == Cardinality(dead)

\* The sweep of the idle queue under mutex_.
HealthCheckSweep ==
    /\ hcpc = "sweep"
    /\ LET dead == {c \in SweptConnections : ~is_connected(c)}
       IN /\ idle_connections_' = healthy_connections
          /\ total_connections_' = total_connections_ - invalid_count(dead)
          /\ closed' = Destroy(closed, dead)
    /\ hcpc' = "loop"
    /\ UNCHANGED <<config, timeout, elapsed, active_connections_, waiting_requests_, shutdown_,
                   connected_, nextId, pc, handle, replacement, lease,
                   outcome, sdpc>>

\* ---------------------------------------------------------------- shutdown
\* Mutant of DrainedIdle: shutdown leaves the idle queue as it is.
DrainedIdleKept == idle_connections_

\* The idle queue after the while (!empty) pop() loop of shutdown.
DrainedIdle == <<>>

\* Mutant of ExchangedValue: the flag is toggled instead of set.
ExchangedToggle == ~shutdown_

\* The value shutdown_.exchange(true) stores.
ExchangedValue == TRUE

\* shutdown_.exchange(true) of the first call, and notify_all.
ShutdownExchange ==
    /\ sdpc = "not_called"
    /\ shutdown_' = ExchangedValue
    /\ sdpc' = "join"
    /\ UNCHANGED <<config, timeout, elapsed, idle_connections_, active_connections_,
                   total_connections_, waiting_requests_, connected_, closed,
                   nextId, pc, handle, replacement, lease, outcome,
                   hcpc>>

\* health_check_thread_.join() returns once health_check_task has ended.
ShutdownJoin ==
    /\ sdpc = "join"
    /\ hcpc = "ended"
    /\ sdpc' = "drain"
    /\ UNCHANGED <<config, timeout, elapsed, poolVars, connected_, closed, nextId, pc, handle,
                   replacement, lease, outcome, hcpc>>

\* Under mutex_: every idle connection is popped and destroyed, then
\* active_connections_.clear() destroys every connection of the active set.
ShutdownDrain ==
    /\ sdpc = "drain"
    /\ idle_connections_' = DrainedIdle
    /\ active_connections_' = {}
    /\ closed' = Destroy(Destroy(closed, Range(idle_connections_)),
                         active_connections_)
    /\ connected_' = connected_
                        \ (Range(idle_connections_) \cup active_connections_)
    /\ sdpc' = "returned"
    /\ UNCHANGED <<config, timeout, elapsed, total_connections_, waiting_requests_, shutdown_,
                   nextId, pc, handle, replacement, lease, outcome,
                   hcpc>>

\* Mutant of AlreadyShutdown: the value exchange returns is ignored.
AlreadyShutdownIgnored == FALSE

\* if (shutdown_.exchange(true)) return; in a call made when the flag is set.
AlreadyShutdown == shutdown_

\* A caller calls shutdown() when the flag has been set by the first call,
\* after that call or while it is joining or draining.  The exchange
\* tells it to return; otherwise the call would go on to notify, join and
\* drain.
ShutdownAgain(t) ==
    /\ pc[t] = "idle"
    /\ PoolAlive
    /\ shutdown_
    /\ shutdown_' = ExchangedValue
    /\ outcome' = [outcome EXCEPT ![t] = "ShutdownNoop"]
    /\ sdpc' = IF AlreadyShutdown THEN sdpc ELSE "join"
    /\ UNCHANGED <<config, timeout, elapsed, idle_connections_, active_connections_,
                   total_connections_, waiting_requests_, connected_, closed,
                   nextId, pc, handle, replacement, lease, hcpc>>

\* ~ConnectionPool, run when the last owner lets go of the pool: no caller
\* is inside a member function then.  Its shutdown() call finds the flag set
\* (the destructor of a pool that was not shut down runs the steps of
\* shutdown first); then the members are destroyed, and with them every
\* connection still in the idle queue or the active set.
DestroyPool ==
    /\ sdpc = "returned"
    /\ \A t \in Threads : pc[t] \in {"idle", "holding"}
    /\ IF AlreadyShutdown
       THEN /\ closed' = Destroy(Destroy(closed, Range(idle_connections_)),
                                 active_connections_)
            /\ connected_' = connected_
                    \ (Range(idle_connections_) \cup active_connections_)
            /\ idle_connections_' = <<>>
            /\ active_connections_' = {}
            /\ sdpc' = "destroyed"
       ELSE /\ sdpc' = "join"
            /\ UNCHANGED <<idle_connections_, active_connections_,
                           connected_, closed>>
    /\ UNCHANGED <<config, timeout, elapsed, total_connections_, waiting_requests_, shutdown_,
                   nextId, pc, handle, replacement, lease, outcome, hcpc>>

\* -------------------------------------------------------------- Connection
\* Connection::disconnect: a connection the pool owns stops being connected.
disconnect(c) ==
    /\ c \in connected_
    /\ c \in Range(idle_connections_) \cup active_connections_
    /\ connected_' = connected_ \ {c}
    /\ UNCHANGED <<config, timeout, elapsed, poolVars, closed, nextId, pc, handle, replacement,
                   lease, outcome, hcpc, sdpc>>

\* ----------------------------------------------------------- specification
Next ==
    \/ \E t \in Threads : GetConnectionCheck(t)
    \/ \E t \in Threads : GetConnectionInc(t)
    \/ \E t \in Threads : GetConnectionLoop(t)
    \/ \E t \in Threads : borrow_from_pool(t)
    \/ \E t \in Threads : GetConnectionGot(t)
    \/ \E t \in Threads : GetConnectionElapsed(t)
    \/ \E t \in Threads : HandleQuery(t)
    \/ \E t \in Threads : ReleaseHandle(t)
    \/ HealthCheckLoop
    \/ HealthCheckWake
    \/ HealthCheckSweep
    \/ ShutdownExchange
    \/ ShutdownJoin
    \/ ShutdownDrain
    \/ \E t \in Threads : ShutdownAgain(t)
    \/ DestroyPool
    \/ \E c \in 1..(nextId - 1) : disconnect(c)

Spec == Init /\ [][Next]_vars

\* The program with callers that also move their handles to one another.
MoveNext ==
    \/ Next
    \/ \E t, u \in Threads : MoveConstruct(t, u)
    \/ \E t, u \in Threads : MoveAssign(t, u)

MoveSpec == Init /\ [][MoveNext]_vars

\* The pool and its callers on the data source of EvictInit.
EvictSpec == EvictInit /\ [][Next]_vars

\* One step of health_check_task.
HealthStep ==
    \/ HealthCheckLoop
    \/ HealthCheckWake
    \/ HealthCheckSweep

\* The health-check thread next to shutdown(): connections of the idle queue
\* drop, the thread sweeps them, shutdown() is called once and then again.
HealthNext ==
    \/ HealthCheckLoop
    \/ HealthCheckWake
    \/ HealthCheckSweep
    \/ ShutdownExchange
    \/ ShutdownJoin
    \/ ShutdownDrain
    \/ \E t \in Threads : ShutdownAgain(t)
    \/ \E c \in 1..(nextId - 1) : disconnect(c)

\* The health-check thread keeps running: its sleep ends and it gets
\* mutex_, which every holder releases after finitely many steps.  The
\* thread inside shutdown() keeps running too: join() returns once the
\* health-check thread has ended, and the drain gets mutex_.
HealthSpec ==
    /\ Init
    /\ [][HealthNext]_vars
    /\ WF_vars(HealthStep)
    /\ WF_vars(ShutdownJoin)
    /\ WF_vars(ShutdownDrain)

\* shutdown() next to everything that can be in flight when it is called:
\* get_connection calls, handle releases, connections that drop, the
\* health-check thread and further shutdown() calls.
ShutdownNext ==
    \/ \E t \in Threads : GetConnectionCheck(t)
    \/ \E t \in Threads : GetConnectionInc(t)
    \/ \E t \in Threads : GetConnectionLoop(t)
    \/ \E t \in Threads : borrow_from_pool(t)
    \/ \E t \in Threads : GetConnectionGot(t)
    \/ \E t \in Threads : GetConnectionElapsed(t)
    \/ \E t \in Threads : ReleaseHandle(t)
    \/ HealthCheckLoop
    \/ HealthCheckWake
    \/ HealthCheckSweep
    \/ ShutdownExchange
    \/ ShutdownJoin
    \/ ShutdownDrain
    \/ \E t \in Threads : ShutdownAgain(t)
    \/ \E c \in 1..(nextId - 1) : disconnect(c)

\* The health-check thread and the thread inside shutdown() keep running
\* (see HealthSpec); nothing is assumed of the callers, which shutdown()
\* does not wait for.  Every section under mutex_ is straight-line code
\* without a wait, so a thread that asks for the mutex gets it.
ShutdownSpec ==
    /\ ShutdownInit
    /\ [][ShutdownNext]_vars
    /\ WF_vars(HealthStep)
    /\ WF_vars(ShutdownJoin)
    /\ WF_vars(ShutdownDrain)

\* The steps of one get_connection call between its entry and its return.
CallStep(t) ==
    \/ GetConnectionLoop(t)
    \/ borrow_from_pool(t)
    \/ GetConnectionGot(t)
    \/ GetConnectionElapsedTimed(t)

\* Callers with clocks that acquire and release, and a shutdown() that sets
\* the flag; the health-check thread, which no caller waits for, and the
\* rest of shutdown() are left to Spec.
TimedNext ==
    \/ \E t \in Threads : GetConnectionCheck(t)
    \/ \E t \in Threads : GetConnectionInc(t)
    \/ \E t \in Threads : GetConnectionLoop(t)
    \/ \E t \in Threads : borrow_from_pool(t)
    \/ \E t \in Threads : GetConnectionGot(t)
    \/ \E t \in Threads : GetConnectionElapsedTimed(t)
    \/ \E t \in Threads : ReleaseHandle(t)
    \/ ShutdownExchange

\* A caller inside get_connection keeps running: a thread that sleeps
\* 100 ms wakes up, and one that asks for mutex_ gets it, every holder of
\* the mutex releasing it after finitely many steps.
TimedSpec ==
    /\ TimedInit
    /\ [][TimedNext]_vars
    /\ \A t \in Threads : WF_vars(CallStep(t))

TypeOK ==
    /\ config \in ConnectionPoolConfig
    /\ total_connections_ \in Nat
    /\ waiting_requests_ \in Nat
    /\ shutdown_ \in BOOLEAN
    /\ active_connections_ \subseteq 1..(nextId - 1)
    /\ Range(idle_connections_) \subseteq 1..(nextId - 1)
    /\ pc \in [Threads -> {"idle", "inc", "loop", "borrow", "got", "elapsed",
                           "holding", "destroy", "return_locked"}]
    /\ hcpc \in {"loop", "sleeping", "sweep", "ended"}
    /\ sdpc \in {"not_called", "join", "drain", "returned", "destroyed"}
    /\ timeout \in [Threads -> 0..MaxTimeout]
    /\ elapsed \in [Threads -> 0..MaxTimeout]

\* ------------------------------------------------------------------ claims
\* A caller has a PoolConnectionHandle: between borrow_from_pool returning
\* it and its destructor having run.
HasHandle(t) == pc[t] \in {"got", "holding", "destroy", "return_locked"}

\* C1: in every reachable state (before, during and after shutdown)
\* idle_count + active_count equals total_count.
C1_StatusSum ==
    Len(idle_connections_) + Cardinality(active_connections_)
        = total_connections_

\* C2: with min_size <= max_size, total_count never exceeds max_size.
C2_TotalWithinMax == total_connections_ <= config.max_connections

\* C2 witness: the pool is at its limit with a connection that
\* borrow_from_pool created, and a borrow has been refused.
C2_Witness ==
    /\ total_connections_ = config.max_connections
    /\ \E c \in active_connections_ : c > config.min_connections
    /\ \E t \in Threads : pc[t] = "elapsed"

\* C3: no connection is in the idle queue and in the active set at once.
C3_IdleActiveDisjoint ==
    Range(idle_connections_) \cap active_connections_ = {}

\* C3 witness: a connection of the warm-up (idle after construction) is in
\* the active set while another one is still idle.
C3_Witness ==
    /\ \E c \in active_connections_ : c <= config.min_connections
    /\ idle_connections_ # <<>>

\* C4: no two handles that exist at the same time own, or were issued for,
\* the same connection.
C4_ExclusiveLease ==
    \A t, u \in Threads :
        (t # u /\ HasHandle(t) /\ HasHandle(u)) =>
            /\ lease[t] # Null => lease[t] # lease[u]
            /\ handle[t] # Null =>
                  (handle[t] # handle[u] /\ handle[t] # replacement[u])
            /\ replacement[t] # Null => replacement[t] # replacement[u]

\* C4 witness: two callers hold a handle at the same time, each issued for
\* a connection.
C4_Witness ==
    \E t, u \in Threads :
        /\ t # u
        /\ pc[t] = "holding" /\ pc[u] = "holding"
        /\ lease[t] # Null /\ lease[u] # Null

\* C5: every handle a successful get_connection returned owns a connection
\* (conn_ is not null), so its operations do not fail with InvalidHandle.
C5_HandleOwnsConnection ==
    \A t \in Threads :
        pc[t] = "holding" =>
            (handle[t] # Null /\ outcome[t] # "InvalidHandle")

\* C6: releasing a handle while the pool is running and its connection is
\* connected moves that connection from the active set to the idle queue
\* and leaves total_count unchanged.
C6_Reuse ==
    [][\A t \in Threads :
          (/\ pc[t] \in {"holding", "return_locked"}
           /\ pc'[t] = "idle"
           /\ ~shutdown_
           /\ lease[t] # Null
           /\ is_connected(lease[t]))
          => (/\ lease[t] \notin active_connections_'
              /\ lease[t] \in Range(idle_connections_')
              /\ total_connections_' = total_connections_)]_vars

\* C7: in a pool with min_size = max_size = N whose N connections exist and
\* are connected, a get_connection attempt finds no connection only while N
\* handles are out: once a handle is released a new get_connection succeeds.
\* Stated for test_on_borrow = false, where a borrowed handle is returned to
\* the caller without validation.
C7_ExhaustionRecovery ==
    [][\A t \in Threads :
          (/\ pc[t] = "borrow"
           /\ pc'[t] = "elapsed"
           /\ config.min_connections = config.max_connections
           /\ ~config.test_on_borrow
           /\ total_connections_ = config.max_connections
           /\ ~shutdown_
           /\ \A c \in Range(idle_connections_) \cup active_connections_ :
                 is_connected(c))
          => Cardinality({u \in Threads : HasHandle(u)})
                = config.max_connections]_vars

\* C8: a get_connection call that starts after shutdown() has returned
\* fails with PoolShutdown in its first step and changes nothing in the pool
\* (a caller's step that records "ShutdownNoop" is a shutdown() call).
C8_AfterShutdown ==
    [][\A t \in Threads :
          (/\ sdpc = "returned"
           /\ pc[t] = "idle"
           /\ (pc'[t] # "idle" \/ outcome'[t] # outcome[t])
           /\ outcome'[t] # "ShutdownNoop")
          => (/\ outcome'[t] = "PoolShutdown"
              /\ pc'[t] = "idle"
              /\ UNCHANGED <<idle_connections_, active_connections_,
                             total_connections_, waiting_requests_,
                             connected_, closed, nextId>>)]_vars

\* C8 witness: shutdown() has returned and a caller's last call, made with
\* nothing left in the pool, ended with PoolShutdown.
C8_Witness ==
    /\ sdpc = "returned"
    /\ idle_connections_ = <<>>
    /\ active_connections_ = {}
    /\ \E t \in Threads :
          pc[t] = "idle" /\ outcome[t] = "PoolShutdown"

\* C9: once shutdown() has returned the idle queue is empty, and stays so.
C9_IdleEmptyAfterShutdown == sdpc = "returned" => idle_connections_ = <<>>

\* C9 witness: shutdown() has returned, the pool had idle connections, and
\* a get_connection in flight has borrowed after the drain (the drain
\* empties the active set, so a member was added later).
C9_Witness ==
    /\ sdpc = "returned"
    /\ active_connections_ # {}
    /\ DOMAIN closed # {}

\* C10: shutdown() does not close a connection for which a handle is
\* outstanding; it stays open after shutdown() has returned.
C10_LeasedStaysOpen ==
    \A t \in Threads :
        (pc[t] = "holding" /\ lease[t] # Null /\ sdpc = "returned")
        => ~IsClosed(lease[t])

\* C11: when the pool is shut down while a handle is outstanding, the
\* connection leased through it is destroyed exactly once over the whole
\* run: no connection is ever destroyed twice, and once the pool is gone
\* and every handle has been released (which ends without an error) every
\* connection that was created has been destroyed.
C11_ClosedExactlyOnce ==
    /\ \A c \in DOMAIN closed : closed[c] = 1
    /\ (sdpc = "destroyed" /\ \A t \in Threads : pc[t] = "idle")
          => /\ \A c \in 1..(nextId - 1) : IsClosed(c)
             /\ \A t \in Threads : outcome[t] \in
                   {"none", "PoolShutdown", "PoolTimeout", "InvalidHandle",
                    "ShutdownNoop"}

\* C11 witness: shutdown() has returned while a caller holds a handle, and
\* the connection leased through that handle has been destroyed.
C11_Witness ==
    /\ sdpc = "returned"
    /\ \E t \in Threads :
          pc[t] = "holding" /\ lease[t] # Null /\ IsClosed(lease[t])

\* C12: a shutdown() call made once the flag is set, after the first call
\* or concurrently with it, and the call the destructor makes, change
\* nothing of the pool and do not run the shutdown steps again.
C12_ShutdownIdempotent ==
    [][/\ (\E t \in Threads :
              outcome'[t] = "ShutdownNoop" /\ outcome[t] # "ShutdownNoop")
          => UNCHANGED <<idle_connections_, active_connections_,
                         total_connections_, waiting_requests_, shutdown_,
                         connected_, closed, nextId, hcpc, sdpc>>
       /\ sdpc = "returned" => sdpc' \in {"returned", "destroyed"}]_vars

\* C12 witness: a second shutdown() call has returned while the first one
\* was still waiting for the health-check thread.
C12_Witness ==
    /\ sdpc = "join"
    /\ \E t \in Threads : outcome[t] = "ShutdownNoop"

\* The caller is inside the loop of get_connection.
InLoop(t) == pc[t] \in {"loop", "borrow", "elapsed"}

\* C13: a get_connection call that has found no connection and whose
\* timeout has not elapsed, or that sleeps between two attempts, at a
\* moment when the shutdown flag is set, ends with "Connection pool is
\* shutdown".
C13_WaitersObserveShutdown ==
    \A t \in Threads :
        (shutdown_ /\ (pc[t] = "loop" \/ (pc[t] = "elapsed" /\ ~TimedOut(t))))
            ~> (pc[t] = "idle" /\ outcome[t] = "PoolShutdown")

\* C13 witness: shutdown() has set the flag while a caller that found no
\* connection in an earlier attempt waits for the next one.
C13_Witness ==
    \E t \in Threads :
        shutdown_ /\ pc[t] = "loop" /\ elapsed[t] > 0

C15_OnlyTimeoutOrShutdown ==
    [][\A t \in Threads :
          (/\ pc[t] \in {"loop", "borrow", "got", "elapsed"}
           /\ outcome'[t] # outcome[t])
          => outcome'[t] \in {"handle", "PoolTimeout", "PoolShutdown"}]_vars

\* C16: an attempt of get_connection in which the creation of a connection
\* fails leaves total_connections_, the idle queue and the active set as
\* they were (but for a dead idle connection the same attempt evicted
\* first), raises no error and leaves the caller in the loop.
C16_CreateFailureAbsorbed ==
    [][\A t \in Threads :
          LET front == IF idle_connections_ = <<>> THEN Null
                       ELSE Head(idle_connections_)
              dead == front # Null /\ front \notin connected_
              before == IF dead THEN total_connections_ - 1
                        ELSE total_connections_
          IN (/\ pc[t] = "borrow"
              /\ pc'[t] = "elapsed"
              /\ before < config.max_connections)
             => (/\ total_connections_' = before
                 /\ active_connections_' = active_connections_
                 /\ idle_connections_' =
                       IF dead THEN Tail(idle_connections_)
                       ELSE idle_connections_
                 /\ outcome'[t] = outcome[t]
                 /\ InLoop(t)')]_vars

\* C16 witness: no connection has been created yet, the pool is below its
\* maximum, and a caller's attempt has ended without a connection.
C16_Witness ==
    \E t \in Threads :
        /\ pc[t] = "elapsed"
        /\ nextId = 1
        /\ total_connections_ = 0
        /\ active_connections_ = {} /\ idle_connections_ = <<>>

\* C17: an attempt of get_connection that pops a dead connection from the
\* idle queue destroys it, decrements total_connections_ for it, does not
\* put it back in the idle queue or in the active set, and goes on to
\* create a connection; the connection an attempt hands out is connected;
\* and a destroyed connection is never in the idle queue again.
C17_EvictionOnBorrow ==
    /\ [][\A t \in Threads :
             (pc[t] = "borrow" /\ pc'[t] # "borrow")
             => /\ pc'[t] = "got" => lease'[t] \in connected_'
                /\ (idle_connections_ # <<>>
                    /\ Head(idle_connections_) \notin connected_)
                   => LET d == Head(idle_connections_)
                      IN /\ idle_connections_' = Tail(idle_connections_)
                         /\ d \notin active_connections_'
                         /\ d \in DOMAIN closed' /\ d \notin DOMAIN closed
                         /\ lease'[t] # d
                         /\ IF pc'[t] = "got"
                            THEN /\ total_connections_' = total_connections_
                                 /\ lease'[t] = nextId
                            ELSE /\ total_connections_' =
                                       total_connections_ - 1
                                 /\ pc'[t] = "elapsed"]_vars
    /\ [](\A c \in DOMAIN closed : c \notin Range(idle_connections_))

\* C17 witness: with test_on_borrow set, an attempt has destroyed the dead
\* connection it popped and has created another one in its place.
C17_Witness ==
    \E t \in Threads :
        /\ config.test_on_borrow
        /\ pc[t] = "got"
        /\ lease[t] = 2 /\ lease[t] \in active_connections_
        /\ 1 \in DOMAIN closed
        /\ total_connections_ = 1
        /\ hcpc = "loop" /\ ~shutdown_

\* C18: a sweep of the health check leaves in the idle queue exactly the
\* connections that were idle and connected, in the order they had,
\* destroys the others and decrements total_connections_ by their number.
C18_SweepKeepsLive ==
    [][(hcpc = "sweep" /\ hcpc' = "loop")
       => LET old == idle_connections_
              new == idle_connections_'
              pos(c) == CHOOSE i \in 1..Len(old) : old[i] = c
          IN /\ Range(new) = {c \in Range(old) : c \in connected_}
             /\ \A i, j \in 1..Len(new) : i < j => pos(new[i]) < pos(new[j])
             /\ \A c \in Range(old) \ Range(new) :
                   c \in DOMAIN closed' /\ c \notin DOMAIN closed
             /\ total_connections_' =
                   total_connections_ - (Len(old) - Len(new))]_vars

\* C18 witness: no caller has done anything yet, and a sweep has kept one
\* idle connection and destroyed another.
C18_Witness ==
    /\ hcpc = "loop" /\ ~shutdown_
    /\ \A t \in Threads : pc[t] = "idle" /\ outcome[t] = "none"
    /\ active_connections_ = {}
    /\ Len(idle_connections_) = 1
    /\ DOMAIN closed # {}
    /\ total_connections_ = 1

\* C19: no step of the health-check thread changes the active set, a
\* leased connection (whether it is connected, whether it was destroyed),
\* waiting_requests_, the shutdown flag or what a caller holds.
C19_SweepFrame ==
    [][hcpc' # hcpc
       => /\ UNCHANGED <<active_connections_, waiting_requests_, shutdown_,
                         pc, handle, replacement, lease, nextId, config>>
          /\ \A c \in active_connections_ :
                /\ (c \in connected_') = (c \in connected_)
                /\ (c \in DOMAIN closed') = (c \in DOMAIN closed)]_vars

\* C19 witness: a sweep has destroyed an idle connection while another
\* connection, itself disconnected, was on lease.
C19_Witness ==
    /\ hcpc = "loop" /\ ~shutdown_
    /\ \E c \in active_connections_ : c \notin connected_ /\ c \notin DOMAIN closed
    /\ \E t \in Threads : pc[t] = "holding"
    /\ \E d \in DOMAIN closed : d \notin active_connections_
    /\ total_connections_ = 1

\* C20: the destruction of a handle that get_connection returned returns
\* its connection to the idle queue or disposes of it: afterwards the
\* connection is not in the active set, and it is idle or destroyed.
C20_ReleaseReturnsOrDisposes ==
    [][\A t \in Threads :
          (pc[t] = "holding" /\ pc'[t] = "idle" /\ lease[t] # Null)
          => /\ lease[t] \notin active_connections_'
             /\ \/ lease[t] \in Range(idle_connections_')
                \/ lease[t] \in DOMAIN closed']_vars

\* C21: when a handle that get_connection returned is moved, the handle it
\* is moved into owns the connection leased with the source, and the source
\* owns nothing.
C21_MoveTransfersOwnership ==
    [][\A t, u \in Threads :
          (/\ t # u
           /\ pc[t] = "holding" /\ pc'[u] = "holding"
           /\ lease[t] # Null /\ lease[u] # lease[t]
           /\ lease'[u] = lease[t] /\ lease'[t] = Null)
          => (handle'[u] = lease[t] /\ handle'[t] = Null)]_vars

\* C22: is_connected, execute or query on a handle whose conn_ is empty
\* ends with "Connection handle is invalid" and touches no connection and
\* nothing of the pool.
C22_InvalidHandleThrows ==
    [][\A t \in Threads :
          (/\ pc[t] = "holding" /\ pc'[t] = "holding"
           /\ handle[t] = Null
           /\ outcome'[t] # outcome[t])
          => (/\ outcome'[t] = "InvalidHandle"
              /\ UNCHANGED <<poolVars, connected_, closed, nextId, handle,
                             lease>>)]_vars

\* C22 witness: a caller has run a query on the handle it holds, whose
\* conn_ is empty, and the query has failed.
C22_Witness ==
    \E t \in Threads :
        pc[t] = "holding" /\ handle[t] = Null /\ outcome[t] = "InvalidHandle"

\* A caller lets go of the handle get_connection returned to it.
Released(t) == pc[t] = "holding" /\ pc'[t] = "idle" /\ lease[t] # Null

\* C23: the release of a handle after the pool was destroyed closes the
\* connection leased through it (open before the release, destroyed after
\* it), changes nothing of the pool and raises no error.
C23_ReleaseAfterPoolGone ==
    [][\A t \in Threads :
          (Released(t) /\ ~PoolAlive)
          => (/\ lease[t] \notin DOMAIN closed
              /\ lease[t] \in DOMAIN closed'
              /\ UNCHANGED poolVars
              /\ outcome'[t] = "none")]_vars

C27_Construction ==
    /\ active_connections_ = {}
    /\ waiting_requests_ = 0
    /\ total_connections_ = Len(idle_connections_)
    /\ total_connections_ = nextId - 1
    /\ total_connections_ <= config.min_connections
    /\ ~shutdown_
    /\ [](\A t \in Threads :
             (PoolAlive /\ ~shutdown_ /\ pc[t] = "idle")
                => ENABLED GetConnectionCheck(t))

\* C27 witness: a pool with min_connections = 2 in which one connection
\* only was ever created, so that the warm-up fell short, and a caller
\* holds a handle for which that connection was leased.
C27_Witness ==
    /\ config.min_connections = 2
    /\ nextId = 2
    /\ \E t \in Threads : pc[t] = "holding" /\ lease[t] = 1

\* C28: no step resets the shutdown flag once it is set.
C28_ShutdownMonotonic == [][shutdown_ => shutdown_']_vars

\* C28 witness: after the first shutdown() a second call was made and the
\* pool was destroyed, and the flag is still set.
C28_Witness ==
    /\ shutdown_
    /\ sdpc = "destroyed"
    /\ \E t \in Threads : outcome[t] = "ShutdownNoop"

\* The caller is between waiting_requests_++ and the end of its call.
Counted(t) == pc[t] \in {"loop", "borrow", "got", "elapsed"}

\* C29: waiting_requests_ is the number of get_connection calls between
\* their increment and their end, so it is 0 when no call is in progress.
C29_WaitingCount ==
    waiting_requests_ = Cardinality({t \in Threads : Counted(t)})

\* C29 witness: calls have ended by a timeout and by the handle error, no
\* call is in progress, and the counter is back at 0.
C29_Witness ==
    /\ waiting_requests_ = 0
    /\ \A t \in Threads : ~Counted(t) /\ pc[t] # "inc"
    /\ \E t \in Threads : outcome[t] = "PoolTimeout"
    /\ \E t \in Threads : outcome[t] = "InvalidHandle" /\ pc[t] = "idle"

\* C30: once shutdown is signaled the health checker starts no new sweep
\* (a sweep whose shutdown test was passed before the signal may still run),
\* it ends and stays ended, shutdown() enters its join once only, and the
\* idle queue is drained only after the health checker has ended; the
\* health checker does end and shutdown() does return.
C30_HealthCheckerStops ==
    /\ [][(shutdown_ /\ hcpc # "sweep") => hcpc' # "sweep"]_vars
    /\ [][hcpc = "ended" => hcpc' = "ended"]_vars
    /\ [][sdpc' = "join" => sdpc \in {"not_called", "join"}]_vars
    /\ [][(sdpc # "returned" /\ sdpc' = "returned")
             => (sdpc = "drain" /\ hcpc = "ended")]_vars
    /\ [][sdpc' = "drain" => hcpc = "ended"]_vars
    /\ (shutdown_ ~> hcpc = "ended")
    /\ (shutdown_ ~> sdpc = "returned")

\* C30 witness: shutdown was signaled while a sweep of a non-empty idle
\* queue was in flight, and shutdown() waits in its join.
C30_Witness ==
    /\ shutdown_
    /\ sdpc = "join"
    /\ hcpc = "sweep"
    /\ idle_connections_ # <<>>

\* The step is a borrow_from_pool of caller t that created a Connection.
BorrowCreated(t) ==
    /\ pc[t] = "borrow"
    /\ pc'[t] = "got"
    /\ nextId' = nextId + 1

\* C31: borrow_from_pool creates a connection only when no connection is
\* left waiting in the idle queue and the total was below max_connections.
C31_CreationPolicy ==
    [][\A t \in Threads :
          BorrowCreated(t)
             => /\ idle_connections_' = <<>>
                /\ total_connections_' <= config.max_connections]_vars

\* C32: a single caller waiting in get_connection on a pool that is at
\* max_connections while no other caller has a handle or a call in
\* progress (every handle was released) obtains a handle, unless shutdown
\* is signaled or another caller comes in first.
C32_WaiterServedAfterRelease ==
    \A t \in Threads :
        (/\ pc[t] = "loop"
         /\ ~shutdown_
         /\ total_connections_ = config.max_connections
         /\ \A u \in Threads \ {t} : pc[u] = "idle")
        ~> (\/ pc[t] = "holding"
            \/ shutdown_
            \/ \E u \in Threads \ {t} : pc[u] # "idle")

\* C33: a caller that found nothing to borrow attempts again only when
\* something it waits for has happened: a connection is in the idle queue,
\* the total is below max_connections, or shutdown is signaled (when its
\* timeout has expired the call ends instead).
C33_NoPolling ==
    [][\A t \in Threads :
          (pc[t] = "elapsed" /\ pc'[t] = "loop")
             => \/ idle_connections_ # <<>>
                \/ total_connections_ < config.max_connections
                \/ shutdown_]_vars

\* A step made while the thread holds mutex_ (std::lock_guard).
LockedStep ==
    \/ \E t \in Threads : borrow_from_pool(t)
    \/ \E t \in Threads : pc[t] = "return_locked" /\ ReleaseHandle(t)
    \/ HealthCheckSweep
    \/ ShutdownDrain

\* C34: while the pool object exists, every step that changes the idle
\* queue, the active set, total_connections_, waiting_requests_ or the
\* shutdown flag is made with mutex_ held.
C34_MutationsUnderMutex ==
    [][(/\ sdpc' # "destroyed"
        /\ poolVars' # poolVars) => LockedStep]_vars

\* C35: once the shutdown flag is set no handle is handed out, no
\* connection is created and none is put into the active set.
C35_NothingAfterShutdown ==
    [][shutdown_
          => /\ active_connections_' \subseteq active_connections_
             /\ nextId' = nextId
             /\ \A t \in Threads :
                   pc'[t] = "holding" => pc[t] = "holding"]_vars

\* The connections owned by the handles of the callers.
Owned ==
    ({handle[t] : t \in Threads} \cup {replacement[t] : t \in Threads})
        \ {Null}

\* C36: before shutdown the active set is exactly the set of connections
\* the live handles own, and these are counted in total_connections_.
C36_ActiveIsOwned ==
    ~shutdown_
        => /\ active_connections_ = Owned
           /\ Cardinality(Owned) <= total_connections_

\* C39: a move assignment onto a handle that was given a connection lets
\* that connection go back to the pool: it leaves the active set and is
\* either in the idle queue or discounted from total_connections_.
C39_MoveAssignReleases ==
    [][\A t, u \in Threads :
          (/\ t # u
           /\ pc[t] = "holding" /\ pc[u] = "holding"
           /\ pc' = pc
           /\ lease[u] # Null
           /\ lease'[u] = lease[t]
           /\ lease'[t] = Null
           /\ lease' # lease)
             => /\ lease[u] \notin active_connections_'
                /\ \/ lease[u] \in Range(idle_connections_')
                   \/ total_connections_' = total_connections_ - 1]_vars

\* C37: shutdown() asks for mutex_ (the drain) only after its join of the
\* health-check thread has returned, and a shutdown() that has set the flag
\* returns, whatever the callers and the health-check thread are doing.
C37_ShutdownTerminates ==
    /\ [][sdpc' = "drain" => (sdpc \in {"join", "drain"} /\ hcpc = "ended")]_vars
    /\ (sdpc = "join" ~> sdpc = "returned")

\* C37 witness: shutdown() has returned after it was called with a sweep
\* due, a caller inside get_connection and another holding a handle.
C37_Witness ==
    /\ sdpc = "returned"
    /\ \E t, u \in Threads :
          /\ pc[t] \in {"loop", "borrow", "got", "elapsed"}
          /\ pc[u] = "holding"

\* C38: neither counter is decremented at 0 (a size_t that was would wrap;
\* here it would leave Nat).  total_connections_ counts at least the
\* connections of the idle queue and of the active set, the only ones whose
\* eviction decrements it, and waiting_requests_ stays a natural number.
C38_NoUnderflow ==
    /\ total_connections_ \in Nat
    /\ waiting_requests_ \in Nat
    /\ Len(idle_connections_) + Cardinality(active_connections_)
          <= total_connections_

\* C38 witness: connections were evicted until total_connections_ was back
\* at 0, and a call has timed out, which took waiting_requests_ back to 0.
C38_Witness ==
    /\ total_connections_ = 0
    /\ waiting_requests_ = 0
    /\ nextId > 1
    /\ DOMAIN closed # {}
    /\ ~shutdown_
    /\ \E t \in Threads : outcome[t] = "PoolTimeout"

====
